---------------------------- MODULE Spec2Model ----------------------------
(***************************************************************************)
(* A model of pptx2md-cli (src/src/pptx2md_cli/cli.py): one run of the     *)
(* command, from argument handling to the final write of the Markdown      *)
(* file.  Text is a sequence of one-character strings, a file name is a    *)
(* text, a path is a record [abs, parts] as pathlib.PurePosixPath keeps    *)
(* it (an anchor and the list of its components).                          *)
(***************************************************************************)
EXTENDS Naturals, Sequences, FiniteSets, TLC

(***************************************************************************)
(* Bounds of the model.                                                    *)
(***************************************************************************)
\* the largest number of entries the engine leaves in the image directory
MaxFiles == 2

(***************************************************************************)
(* Text: str operations used by the program.                               *)
(***************************************************************************)
\* the characters of the model in code point order (ASCII)
AsciiOrder ==
  << "\n", " ", "!", "#", "%", "(", ")", "-", ".", "/", "0", "1", "2", "3", "5",
     "<", "A", "C", "G", "I", "J", "N", "P", "[", "]", "_",
     "a", "b", "c", "d", "e", "f", "g", "i", "j", "k", "m", "n", "o", "p", "q",
     "s", "t", "u", "w", "x", "y", "~" >>

Code(c) == CHOOSE i \in 1..Len(AsciiOrder) : AsciiOrder[i] = c

\* str.lower() on one character
LowerChar(c) ==
  CASE c = "A" -> "a" [] c = "C" -> "c" [] c = "G" -> "g" [] c = "I" -> "i"
    [] c = "J" -> "j" [] c = "N" -> "n" [] c = "P" -> "p" [] OTHER -> c

Lower(s) == [i \in 1..Len(s) |-> LowerChar(s[i])]

\* s[i:] and s[:i] with 0-based i, as Python slices
From(s, i) == SubSeq(s, i + 1, Len(s))
UpTo(s, i) == SubSeq(s, 1, i)

StartsWith(s, p) == Len(p) <= Len(s) /\ SubSeq(s, 1, Len(p)) = p

\* p in s
Contains(s, p) ==
  \E i \in 0..(Len(s) - Len(p)) : SubSeq(s, i + 1, i + Len(p)) = p

\* s.replace(old, new), old not empty: leftmost occurrences, not overlapping
RECURSIVE Replace(_, _, _)
Replace(s, old, new) ==
  IF Len(s) < Len(old) THEN s
  ELSE IF StartsWith(s, old)
       THEN new \o Replace(From(s, Len(old)), old, new)
       ELSE <<s[1]>> \o Replace(Tail(s), old, new)

\* s.rfind("."), 0-based, -1 rendered as the absent index Len(s)
RFindDot(s) ==
  IF \E i \in 1..Len(s) : s[i] = "."
  THEN (CHOOSE i \in 1..Len(s) :
          s[i] = "." /\ \A j \in (i + 1)..Len(s) : s[j] # ".") - 1
  ELSE Len(s)

\* string comparison a < b by code points
RECURSIVE LessText(_, _)
LessText(a, b) ==
  IF b = <<>> THEN FALSE
  ELSE IF a = <<>> THEN TRUE
  ELSE IF a[1] = b[1] THEN LessText(Tail(a), Tail(b))
  ELSE Code(a[1]) < Code(b[1])

\* "".join over a sequence of texts with separator sep
RECURSIVE JoinText(_, _)
JoinText(sep, xs) ==
  IF xs = <<>> THEN <<>>
  ELSE IF Len(xs) = 1 THEN xs[1]
  ELSE xs[1] \o sep \o JoinText(sep, Tail(xs))

(***************************************************************************)
(* urllib.parse.quote as _quote_path calls it.                             *)
(***************************************************************************)
Letters ==
  { "A", "C", "G", "I", "J", "N", "P",
    "a", "b", "c", "d", "e", "f", "g", "i", "j", "k", "m", "n", "o", "p", "q",
    "s", "t", "u", "w", "x", "y" }
Digits == { "0", "1", "2", "3", "5" }
\* quote() never encodes these
AlwaysSafe == Letters \cup Digits \cup { "_", ".", "-", "~" }
\* safe="/()[]-._"
QuoteSafeArg == { "/", "(", ")", "[", "]", "-", ".", "_" }

\* %XX of the one byte of an ASCII character
PercentHex(c) ==
  CASE c = "\n" -> << "%", "0", "A" >>
    [] c = " "  -> << "%", "2", "0" >>
    [] c = "!"  -> << "%", "2", "1" >>
    [] c = "#"  -> << "%", "2", "3" >>
    [] c = "%"  -> << "%", "2", "5" >>
    [] c = "("  -> << "%", "2", "8" >>
    [] c = ")"  -> << "%", "2", "9" >>
    [] c = "/"  -> << "%", "2", "F" >>
    [] c = "<"  -> << "%", "3", "C" >>
    [] c = "["  -> << "%", "5", "B" >>
    [] c = "]"  -> << "%", "5", "D" >>

QuoteChar(c, safe) ==
  IF c \in AlwaysSafe \cup safe THEN <<c>> ELSE PercentHex(c)

RECURSIVE quote(_, _)
quote(s, safe) ==
  IF s = <<>> THEN <<>> ELSE QuoteChar(s[1], safe) \o quote(Tail(s), safe)

_quote_path(path) == quote(path, QuoteSafeArg)

(***************************************************************************)
(* pathlib: a path is [abs |-> BOOLEAN, parts |-> sequence of names]; the  *)
(* relative path with no parts is Path(".").                               *)
(***************************************************************************)
MkPath(abs, parts) == [abs |-> abs, parts |-> parts]

\* a / b
Join(a, b) == IF b.abs THEN b ELSE MkPath(a.abs, a.parts \o b.parts)

\* p.parent
Parent(p) ==
  IF p.parts = <<>> THEN p ELSE MkPath(p.abs, UpTo(p.parts, Len(p.parts) - 1))

\* p.name
Name(p) == IF p.parts = <<>> THEN <<>> ELSE p.parts[Len(p.parts)]

\* the suffix of a name: from its last dot, unless that dot is first or last
Suffix(name) ==
  LET i == RFindDot(name)
  IN  IF 0 < i /\ i < Len(name) - 1 THEN From(name, i) ELSE <<>>

\* p.stem on a name
Stem(name) ==
  LET i == RFindDot(name)
  IN  IF 0 < i /\ i < Len(name) - 1 THEN UpTo(name, i) ELSE name

\* name.with_suffix(suffix)
WithSuffix(name, suffix) == UpTo(name, Len(name) - Len(Suffix(name))) \o suffix

\* whether p.relative_to(other) returns (it raises ValueError otherwise)
IsRelativeTo(p, other) ==
  /\ p.abs = other.abs
  /\ Len(other.parts) <= Len(p.parts)
  /\ UpTo(p.parts, Len(other.parts)) = other.parts

\* p.relative_to(other), where it returns
RelativeTo(p, other) == MkPath(FALSE, From(p.parts, Len(other.parts)))

\* p.as_posix()
AsPosix(p) ==
  IF p.parts = <<>> THEN (IF p.abs THEN <<"/">> ELSE <<".">>)
  ELSE (IF p.abs THEN <<"/">> ELSE <<>>) \o JoinText(<<"/">>, p.parts)

(***************************************************************************)
(* Names the program itself writes.                                        *)
(***************************************************************************)
IndexMd == << "i", "n", "d", "e", "x", ".", "m", "d" >>
Img == << "i", "m", "g" >>
DotPng == << ".", "p", "n", "g" >>
DotJpg == << ".", "j", "p", "g" >>
DotJpeg == << ".", "j", "p", "e", "g" >>
DotWmf == << ".", "w", "m", "f" >>
ImgSlash == << "i", "m", "g", "/" >>
ImgTag == << "<", "i", "m", "g" >>

\* a path of one component
One(name) == MkPath(FALSE, <<name>>)

(***************************************************************************)
(* _resolve_output_paths.  An optional path is the empty set (None) or a   *)
(* set of one path.  The result is <<output_path, image_dir>>.             *)
(***************************************************************************)
The(opt) == CHOOSE p \in opt : TRUE

\* lines 167-170: a relative override is joined onto the input's parent
Anchored(base_dir, opt) ==
  { IF ~p.abs THEN Join(base_dir, p) ELSE p : p \in opt }

ResolveNoJoin(pptx_path, output_opt, image_opt) ==
  LET base_dir == Parent(pptx_path)
      output_path == output_opt
      image_dir == image_opt
  IN  IF output_path = {} /\ image_dir = {}
      THEN LET output_dir == Join(base_dir, One(Stem(Name(pptx_path))))
           IN  << Join(output_dir, One(IndexMd)), Join(output_dir, One(Img)) >>
      ELSE IF output_path = {} /\ image_dir # {}
      THEN << Join(Parent(The(image_dir)), One(IndexMd)), The(image_dir) >>
      ELSE IF output_path # {} /\ image_dir = {}
      THEN << The(output_path), Join(Parent(The(output_path)), One(Img)) >>
      ELSE << The(output_path), The(image_dir) >>

_resolve_output_paths(pptx_path, output_opt, image_opt) ==
  LET base_dir == Parent(pptx_path)
      output_path == Anchored(base_dir, output_opt)
      image_dir == Anchored(base_dir, image_opt)
  IN  IF output_path = {} /\ image_dir = {}
      THEN LET output_dir == Join(base_dir, One(Stem(Name(pptx_path))))
           IN  << Join(output_dir, One(IndexMd)), Join(output_dir, One(Img)) >>
      ELSE IF output_path = {} /\ image_dir # {}
      THEN << Join(Parent(The(image_dir)), One(IndexMd)), The(image_dir) >>
      ELSE IF output_path # {} /\ image_dir = {}
      THEN << The(output_path), Join(Parent(The(output_path)), One(Img)) >>
      ELSE << The(output_path), The(image_dir) >>

(***************************************************************************)
(* The image directory: a function from the names of its entries to        *)
(* [is_file, data]; data is [conv, src]: the bytes the engine wrote under  *)
(* name src (conv FALSE) or the PNG made from them (conv TRUE).            *)
(***************************************************************************)
Entry(is_file, conv, src) ==
  [is_file |-> is_file, data |-> [conv |-> conv, src |-> src]]

Original(name, is_file) == Entry(is_file, FALSE, name)

\* the directory the engine leaves, from a set of [name, is_file]
DirOf(entries) ==
  [n \in { e.name : e \in entries } |->
     Original(n, (CHOOSE e \in entries : e.name = n).is_file)]

Remove(dir, name) == [n \in (DOMAIN dir) \ {name} |-> dir[n]]

Put(dir, name, entry) ==
  [n \in (DOMAIN dir) \cup {name} |-> IF n = name THEN entry ELSE dir[n]]

\* every order in which iterdir() may yield a set of names
Orders(S) ==
  { o \in [1..Cardinality(S) -> S] : \A i, j \in DOMAIN o : i # j => o[i] # o[j] }

\* names in ascending order: sorted()
RECURSIVE Sorted(_)
Sorted(S) ==
  IF S = {} THEN <<>>
  ELSE LET m == CHOOSE x \in S : \A y \in S \ {x} : LessText(x, y)
       IN  <<m>> \o Sorted(S \ {m})

(***************************************************************************)
(* The pure passes of _normalize_images over the Markdown text.            *)
(***************************************************************************)
ApplyFirstOnly(text, pairs) ==
  IF pairs = <<>> THEN text ELSE Replace(text, pairs[1][1], pairs[1][2])

\* lines 209-210: the rename map applied in insertion order
RECURSIVE ApplyReplacements(_, _)
ApplyReplacements(text, pairs) ==
  IF pairs = <<>> THEN text
  ELSE ApplyReplacements(Replace(text, pairs[1][1], pairs[1][2]), Tail(pairs))

\* the path of an entry relative to the Markdown file's directory, as_posix()
RawLink(rel_dir, name) == AsPosix(Join(rel_dir, One(name)))

RECURSIVE EncodeLinksInverted(_, _, _, _)
EncodeLinksInverted(text, rel_dir, dir, order) ==
  IF order = <<>> THEN text
  ELSE LET name == order[1]
           raw == RawLink(rel_dir, name)
           encoded == _quote_path(raw)
       IN  IF ~dir[name].is_file \/ raw # encoded
           THEN EncodeLinksInverted(text, rel_dir, dir, Tail(order))
           ELSE EncodeLinksInverted(Replace(text, raw, encoded), rel_dir, dir,
                                    Tail(order))

\* lines 314-321, over the names in the order iterdir() yields them
RECURSIVE EncodeLinks(_, _, _, _)
EncodeLinks(text, rel_dir, dir, order) ==
  IF order = <<>> THEN text
  ELSE LET name == order[1]
           raw == RawLink(rel_dir, name)
           encoded == _quote_path(raw)
       IN  IF ~dir[name].is_file \/ raw = encoded
           THEN EncodeLinks(text, rel_dir, dir, Tail(order))
           ELSE EncodeLinks(Replace(text, raw, encoded), rel_dir, dir, Tail(order))

\* line 297-299: the PNG files of the directory
PngNames(dir) ==
  { n \in DOMAIN dir : dir[n].is_file /\ Lower(Suffix(n)) = DotPng }

ImageLine(rel_dir, name) ==
  << "!", "[", "]", "(" >> \o _quote_path(RawLink(rel_dir, name)) \o << ")" >>

\* lines 304-308: the lines of the gallery, before the join
RECURSIVE GalleryLines(_, _)
GalleryLines(rel_dir, names) ==
  IF names = <<>> THEN <<>>
  ELSE << ImageLine(rel_dir, names[1]), <<>> >> \o GalleryLines(rel_dir, Tail(names))

ImagesHeading == << "#", " ", "I", "m", "a", "g", "e", "s" >>

AppendUnsorted(text, rel_dir, dir) ==
  IF Contains(text, ImgSlash) \/ Contains(text, ImgTag) THEN text
  ELSE LET S == PngNames(dir)
           image_paths == CHOOSE o \in Orders(S) :
                            \A i \in 1..(Len(o) - 1) : LessText(o[i + 1], o[i])
       IN  IF image_paths = <<>> THEN text
           ELSE text \o JoinText(<<"\n">>,
                          << <<>>, <<>>, ImagesHeading, <<>> >>
                            \o GalleryLines(rel_dir, image_paths))

\* _append_images_if_missing, where relative_to returns
_append_images_if_missing(text, rel_dir, dir) ==
  IF Contains(text, ImgSlash) \/ Contains(text, ImgTag) THEN text
  ELSE LET image_paths == Sorted(PngNames(dir))
       IN  IF image_paths = <<>> THEN text
           ELSE text \o JoinText(<<"\n">>,
                          << <<>>, <<>>, ImagesHeading, <<>> >>
                            \o GalleryLines(rel_dir, image_paths))

(***************************************************************************)
(* The state of one run.                                                   *)
(***************************************************************************)
VARIABLES
  argv,          \* the parsed command line: pptx_path, output, image, version
  env,           \* the machine: which executables exist, whether wand imports
  engine,        \* what the conversion engine writes: [md, dir]
  pc,            \* where the run is
  output_path,   \* {} before _resolve_output_paths, then a set of one path
  image_dir,     \* likewise
  made,          \* whether the two mkdir calls were made
  fs,            \* the image directory
  md_disk,       \* the Markdown file on disk
  todo,          \* what the loop of _normalize_images has still to visit
  replacements,  \* the rename map, in insertion order: <<old, new>> pairs
  content,       \* the Markdown text in memory
  prev,          \* the text before the last pass over it
  cur,           \* the WMF file the fallback chain last worked on
  steps,         \* the chain's steps on cur: [step, result]
  runs,          \* the external tools run on cur: [step, tool, input]
  stdout,        \* what typer.echo printed
  exit_code,     \* the process exit code, once pc = "exit"
  error          \* the uncaught exception the run died of, or "none"

vars ==
  << argv, env, engine, pc, output_path, image_dir, made, fs, md_disk, todo,
     replacements, content, prev, cur, steps, runs, stdout, exit_code, error >>

VersionLine == "version"
WmfFailedMessage ==
  "WMF conversion failed. Install ImageMagick with WMF support or emf2svg."

InitWith(Args, Envs, Engines) ==
  /\ argv \in Args
  /\ env \in Envs
  /\ engine \in Engines
  /\ pc = "start"
  /\ output_path = {}
  /\ image_dir = {}
  /\ made = FALSE
  /\ fs = << >>
  /\ md_disk = << >>
  /\ todo = << >>
  /\ replacements = << >>
  /\ content = << >>
  /\ prev = << >>
  /\ cur = << >>
  /\ steps = << >>
  /\ runs = << >>
  /\ stdout = << >>
  /\ exit_code = 0
  /\ error = "none"

\* the process ends with this code; an uncaught exception is a traceback and 1
Exit(code, exc) ==
  /\ pc' = "exit"
  /\ exit_code' = code
  /\ error' = exc

(***************************************************************************)
(* The operations, in the order main runs them.                            *)
(***************************************************************************)
VersionCallbackExit1 ==
  /\ pc = "start"
  /\ argv.version
  /\ stdout' = Append(stdout, VersionLine)
  /\ Exit(1, "none")
  /\ UNCHANGED << argv, env, engine, output_path, image_dir, made, fs, md_disk,
                  todo, replacements, content, prev, cur, steps, runs >>

\* _version_callback with --version given: echo, then typer.Exit() (code 0)
_version_callback ==
  /\ pc = "start"
  /\ argv.version
  /\ stdout' = Append(stdout, VersionLine)
  /\ Exit(0, "none")
  /\ UNCHANGED << argv, env, engine, output_path, image_dir, made, fs, md_disk,
                  todo, replacements, content, prev, cur, steps, runs >>

\* main, lines 124-130: the paths are resolved and the directories made
MainPrepare ==
  /\ pc = "start"
  /\ ~argv.version
  /\ LET r == _resolve_output_paths(argv.pptx_path, argv.output, argv.image)
     IN  /\ output_path' = { r[1] }
         /\ image_dir' = { r[2] }
  /\ made' = TRUE
  /\ pc' = "convert"
  /\ UNCHANGED << argv, env, engine, fs, md_disk, todo, replacements, content,
                  prev, cur, steps, runs, stdout, exit_code, error >>

\* main, line 156: convert(config) writes the Markdown file and the images,
\* or raises
convert ==
  /\ pc = "convert"
  /\ \E raised \in BOOLEAN :
       IF raised
       THEN /\ Exit(1, "EngineError")
            /\ UNCHANGED << fs, md_disk >>
       ELSE /\ fs' = engine.dir
            /\ md_disk' = engine.md
            /\ pc' = "iterdir"
            /\ UNCHANGED << exit_code, error >>
  /\ UNCHANGED << argv, env, engine, output_path, image_dir, made, todo,
                  replacements, content, prev, cur, steps, runs, stdout >>

\* line 188: iterdir() lists the directory once, in any order
ListImages ==
  /\ pc = "iterdir"
  /\ todo' \in Orders(DOMAIN fs)
  /\ pc' = "loop"
  /\ UNCHANGED << argv, env, engine, output_path, image_dir, made, fs, md_disk,
                  replacements, content, prev, cur, steps, runs, stdout,
                  exit_code, error >>

IsFile(name) == name \in DOMAIN fs /\ fs[name].is_file

\* line 196
NewName(name) == WithSuffix(name, DotPng)

\* whether a tool can write the target: not over a directory
Writable(name) == name \notin DOMAIN fs \/ fs[name].is_file

\* the conversion wrote new_path; lines 204-205: unlink, record
Converted(name) ==
  /\ fs' = Remove(Put(fs, NewName(name), Entry(TRUE, TRUE, name)), name)
  /\ replacements' = Append(replacements, << name, NewName(name) >>)
  /\ todo' = Tail(todo)

\* lines 189-194, 201-202: an entry the loop passes over
SkipEntry ==
  /\ pc = "loop"
  /\ todo # << >>
  /\ LET name == Head(todo)
         suffix == Lower(Suffix(name))
     IN  ~IsFile(name) \/ suffix = DotPng
           \/ suffix \notin { DotJpg, DotJpeg, DotWmf }
  /\ todo' = Tail(todo)
  /\ UNCHANGED << argv, env, engine, pc, output_path, image_dir, made, fs,
                  md_disk, replacements, content, prev, cur, steps, runs,
                  stdout, exit_code, error >>

\* lines 197-198: _convert_with_pillow returns or raises
_convert_with_pillow ==
  /\ pc = "loop"
  /\ todo # << >>
  /\ LET name == Head(todo)
     IN  /\ IsFile(name)
         /\ Lower(Suffix(name)) \in { DotJpg, DotJpeg }
         /\ \E ok \in (IF Writable(NewName(name)) THEN BOOLEAN ELSE { FALSE }) :
              IF ok
              THEN /\ Converted(name)
                   /\ UNCHANGED << pc, exit_code, error >>
              ELSE /\ Exit(1, "PillowError")
                   /\ UNCHANGED << fs, replacements, todo >>
  /\ UNCHANGED << argv, env, engine, output_path, image_dir, made, md_disk,
                  content, prev, cur, steps, runs, stdout >>

\* what running an executable the code looked up can give
Outcomes(cmd, target) ==
  IF cmd \notin env.which THEN { "absent" }
  ELSE IF Writable(target) THEN { "ok", "fail" } ELSE { "fail" }

Run(step, tool, input) == [step |-> step, tool |-> tool, input |-> input]
Step(step, result) == [step |-> step, result |-> result]

\* lines 199-200, 224 and _convert_with_imagemagick: step 1 of the chain on
\* the next WMF file
_convert_with_imagemagick ==
  /\ pc = "loop"
  /\ todo # << >>
  /\ LET name == Head(todo)
     IN  /\ IsFile(name)
         /\ Lower(Suffix(name)) = DotWmf
         /\ cur' = name
         /\ \E r1 \in Outcomes("magick", NewName(name)),
               r2 \in Outcomes("convert", NewName(name)) :
              /\ runs' =
                   (IF r1 # "absent" THEN << Run(1, "magick", "wmf") >> ELSE << >>)
                   \o (IF r1 # "ok" /\ r2 # "absent"
                       THEN << Run(1, "convert", "wmf") >> ELSE << >>)
              /\ IF r1 = "ok" \/ r2 = "ok"
                 THEN /\ Converted(name)
                      /\ steps' = << Step(1, "ok") >>
                      /\ UNCHANGED pc
                 ELSE /\ steps' = << Step(1, "fail") >>
                      /\ pc' = "wand"
                      /\ UNCHANGED << fs, replacements, todo >>
  /\ UNCHANGED << argv, env, engine, output_path, image_dir, made, md_disk,
                  content, prev, stdout, exit_code, error >>

\* line 227 and _convert_with_wand: step 2
_convert_with_wand ==
  /\ pc = "wand"
  /\ \E r \in (IF ~env.wand THEN { "absent" }
               ELSE IF Writable(NewName(cur)) THEN { "ok", "fail" }
               ELSE { "fail" }) :
       /\ runs' = (IF r # "absent" THEN Append(runs, Run(2, "wand", "wmf")) ELSE runs)
       /\ IF r = "ok"
          THEN /\ Converted(cur)
               /\ steps' = Append(steps, Step(2, "ok"))
               /\ pc' = "loop"
          ELSE /\ steps' = Append(steps, Step(2, "fail"))
               /\ pc' = "emf2svg"
               /\ UNCHANGED << fs, replacements, todo >>
  /\ UNCHANGED << argv, env, engine, output_path, image_dir, made, md_disk,
                  content, prev, cur, stdout, exit_code, error >>

\* lines 230-236 and _convert_with_emf2svg: step 3, then the failure message.
\* subprocess.run(["convert", ...]) on line 284 raises FileNotFoundError when
\* there is no such executable: nothing looks it up first.
_convert_with_emf2svg ==
  /\ pc = "emf2svg"
  /\ \E svg \in (IF "emf2svg-conv" \in env.which THEN { "ok", "fail" }
                 ELSE { "absent" }),
        png \in (IF "convert" \notin env.which THEN { "raise" }
                 ELSE IF Writable(NewName(cur)) THEN { "ok", "fail" }
                 ELSE { "fail" }) :
       /\ runs' = runs
             \o (IF svg # "absent" THEN << Run(3, "emf2svg-conv", "wmf") >> ELSE << >>)
             \o (IF svg = "ok" /\ png # "raise"
                 THEN << Run(3, "convert", "svg") >> ELSE << >>)
       /\ IF svg = "ok" /\ png = "ok"
          THEN /\ Converted(cur)
               /\ steps' = Append(steps, Step(3, "ok"))
               /\ pc' = "loop"
               /\ UNCHANGED << stdout, exit_code, error >>
          ELSE IF svg = "ok" /\ png = "raise"
          THEN /\ steps' = Append(steps, Step(3, "raise"))
               /\ Exit(1, "FileNotFoundError")
               /\ UNCHANGED << fs, replacements, todo, stdout >>
          ELSE /\ steps' = Append(steps, Step(3, "fail"))
               /\ stdout' = Append(stdout, WmfFailedMessage)
               /\ Exit(1, "none")
               /\ UNCHANGED << fs, replacements, todo >>
  /\ UNCHANGED << argv, env, engine, output_path, image_dir, made, md_disk,
                  content, prev, cur >>

\* lines 207-210: the file is read and the rename map applied
RenameSubstitution ==
  /\ pc = "loop"
  /\ todo = << >>
  /\ prev' = md_disk
  /\ content' = ApplyReplacements(md_disk, replacements)
  /\ pc' = "links"
  /\ UNCHANGED << argv, env, engine, output_path, image_dir, made, fs, md_disk,
                  todo, replacements, cur, steps, runs, stdout, exit_code, error >>

\* the directory of the Markdown file
OutputDir == Parent(The(output_path))

\* line 211, _normalize_image_links: relative_to raises ValueError, or every
\* entry is visited in the order iterdir() gives
_normalize_image_links ==
  /\ pc = "links"
  /\ IF ~IsRelativeTo(The(image_dir), OutputDir)
     THEN /\ Exit(1, "ValueError")
          /\ UNCHANGED << content, prev >>
     ELSE /\ \E order \in Orders(DOMAIN fs) :
               content' = EncodeLinks(content, RelativeTo(The(image_dir), OutputDir),
                                      fs, order)
          /\ prev' = content
          /\ pc' = "gallery"
          /\ UNCHANGED << exit_code, error >>
  /\ UNCHANGED << argv, env, engine, output_path, image_dir, made, fs, md_disk,
                  todo, replacements, cur, steps, runs, stdout >>

\* lines 212-213: the gallery fallback, then the file is written and main
\* returns
AppendAndWrite ==
  /\ pc = "gallery"
  /\ IF ~IsRelativeTo(The(image_dir), OutputDir)
     THEN /\ Exit(1, "ValueError")
          /\ UNCHANGED << content, prev, md_disk >>
     ELSE /\ content' = _append_images_if_missing(
                          content, RelativeTo(The(image_dir), OutputDir), fs)
          /\ prev' = content
          /\ md_disk' = content'
          /\ Exit(0, "none")
  /\ UNCHANGED << argv, env, engine, output_path, image_dir, made, fs, todo,
                  replacements, cur, steps, runs, stdout >>

Next ==
  \/ _version_callback
  \/ MainPrepare
  \/ convert
  \/ ListImages
  \/ SkipEntry
  \/ _convert_with_pillow
  \/ _convert_with_imagemagick
  \/ _convert_with_wand
  \/ _convert_with_emf2svg
  \/ RenameSubstitution
  \/ _normalize_image_links
  \/ AppendAndWrite

(***************************************************************************)
(* The inputs of a run: the command line, the machine, and what the engine *)
(* writes.                                                                 *)
(***************************************************************************)
Args(pptx_path, output, image, version) ==
  [pptx_path |-> pptx_path, output |-> output, image |-> image,
   version |-> version]

\* /d/k.x
DeckPath == MkPath(TRUE, << <<"d">>, <<"k", ".", "x">> >>)

PlainArgs == { Args(DeckPath, {}, {}, v) : v \in BOOLEAN }

Executables == { "magick", "convert", "emf2svg-conv" }

AllEnvs == [which : SUBSET Executables, wand : BOOLEAN]

FileE(name) == [name |-> name, is_file |-> TRUE]
DirE(name) == [name |-> name, is_file |-> FALSE]

AJpg == <<"a">> \o DotJpg
APng == <<"a">> \o DotPng
AJpeg == <<"a">> \o DotJpeg
BWmf == <<"b">> \o DotWmf
CPng == <<"c">> \o DotPng
DGif == <<"d", ".", "g", "i", "f">>
EJPG == <<"e", ".", "J", "P", "G">>
SJpg == <<"s">> \o DotJpg

\* the line the engine writes for an image
LinkLine(name) ==
  << "!", "[", "]", "(" >> \o ImgSlash \o name \o << ")", "\n" >>

RECURSIVE Concat(_)
Concat(xs) == IF xs = << >> THEN << >> ELSE xs[1] \o Concat(Tail(xs))

FileNames(entries) == { e.name : e \in { x \in entries : x.is_file } }

\* a Markdown file that links every image file, in name order
LinkedMd(entries) ==
  LET names == Sorted(FileNames(entries))
  IN  Concat([i \in 1..Len(names) |-> LinkLine(names[i])])

TitleMd == << "#", " ", "t", "\n" >>

Bounded(pool) == { S \in SUBSET pool : Cardinality(S) <= MaxFiles }

\* the engine's outputs over the subsets of a pool of entries
EnginesOver(pool) ==
  UNION { { [md |-> m, dir |-> DirOf(S)] : m \in { LinkedMd(S), TitleMd } } :
          S \in Bounded(pool) }

ImagePool ==
  { FileE(AJpg), FileE(AJpeg), FileE(APng), FileE(BWmf), FileE(CPng),
    FileE(DGif), FileE(EJPG), DirE(SJpg) }

Init == InitWith(PlainArgs, AllEnvs, EnginesOver(ImagePool))

Spec == Init /\ [][Next]_vars

(***************************************************************************)
(* Properties of the image normalizer and of the process exit.             *)
(***************************************************************************)
Convertible(name) == Lower(Suffix(name)) \in { DotJpg, DotJpeg, DotWmf }

RegularFiles(dir) == { n \in DOMAIN dir : dir[n].is_file }

RenamePairs == { replacements[i] : i \in DOMAIN replacements }

\* C2: once the loop of _normalize_images has ended with every attempted
\* conversion successful, every regular file that was a PNG or of an extension
\* other than .jpg/.jpeg/.wmf is still there with the bytes the engine wrote,
\* every .jpg/.jpeg/.wmf file is gone and stem + ".png" exists, and the rename
\* map is exactly {name -> stem + ".png"} over the converted files.
C2_LoopLeavesOthersUnchanged ==
  pc = "links" =>
    /\ \A n \in RegularFiles(engine.dir) :
         IF Convertible(n)
         THEN n \notin DOMAIN fs /\ (Stem(n) \o DotPng) \in DOMAIN fs
         ELSE n \in DOMAIN fs /\ fs[n] = engine.dir[n]
    /\ RenamePairs =
         { << n, Stem(n) \o DotPng >> :
             n \in { m \in RegularFiles(engine.dir) : Convertible(m) } }

\* C3: on each WMF file the chain's steps run in the order 1, 2, 3, each at
\* most once and only after every earlier step failed, nothing runs after a
\* success, a step that fails (tool absent, non-zero exit, no output file,
\* exception) only hands over to the next step or to the failure message, and
\* no external tool is run twice on the same input file.
C3_ChainOrderAndAdvance ==
  /\ Len(steps) <= 3
  /\ \A i \in DOMAIN steps :
       /\ steps[i].step = i
       /\ steps[i].result \in { "ok", "fail" }
       /\ i < Len(steps) => steps[i].result = "fail"
  /\ error # "FileNotFoundError"
  /\ \A i, j \in DOMAIN runs :
       /\ i < j => runs[i].step <= runs[j].step
       /\ i # j => << runs[i].tool, runs[i].input >> # << runs[j].tool, runs[j].input >>
  /\ \A i \in DOMAIN runs :
       \E k \in DOMAIN steps :
         /\ steps[k].step = runs[i].step
         /\ \A m \in 1..(k - 1) : steps[m].result = "fail"

\* all three steps were tried on cur and none converted it
ChainExhausted ==
  /\ Len(steps) = 3
  /\ \A i \in DOMAIN steps : steps[i].result # "ok"

MessagePrinted == \E i \in DOMAIN stdout : stdout[i] = WmfFailedMessage

\* C4 (its first half): when all three fallback steps fail for a WMF file, the
\* process ends having printed the message that names ImageMagick and emf2svg,
\* with exit code 1.
C4_ExhaustedChainPrintsMessage ==
  (pc = "exit" /\ ChainExhausted) => (MessagePrinted /\ exit_code = 1)

\* the run reached the end of main
Succeeded == pc = "exit" /\ ~argv.version /\ error = "none" /\ ~MessagePrinted

\* C8 as stated: exit code 0 on success, 1 on the --version short-circuit, 1 on
\* total WMF-conversion failure, non-zero when the engine raises.
C8_ExitCodesAsStated ==
  pc = "exit" =>
    /\ Succeeded => exit_code = 0
    /\ argv.version => exit_code = 1
    /\ MessagePrinted => exit_code = 1
    /\ error = "EngineError" => exit_code # 0

\* C8, amended: exit code 0 on success and on the --version short-circuit
\* (which prints the version and ends before any path is resolved, directory
\* made or engine output written), 1 on total WMF-conversion failure, non-zero
\* when the engine raises.
C8_ExitCodes ==
  pc = "exit" =>
    /\ Succeeded => (exit_code = 0 /\ md_disk = content)
    /\ argv.version =>
         /\ exit_code = 0
         /\ stdout = << VersionLine >>
         /\ output_path = {} /\ image_dir = {} /\ ~made
         /\ fs = << >> /\ md_disk = << >>
    /\ MessagePrinted => exit_code = 1
    /\ error = "EngineError" => exit_code # 0

C8_VersionExit == pc = "exit" /\ argv.version /\ stdout = << VersionLine >>

\* the names normalization has removed from the image directory
Deleted == (DOMAIN engine.dir) \ (DOMAIN fs)

\* C10: when the run ends after the engine returned, normally or through the
\* WMF failure message, the Markdown file on disk mentions no file name that
\* normalization has deleted.
C10_NoReferenceToDeleted ==
  (pc = "exit" /\ ~argv.version /\ error = "none") =>
    \A n \in Deleted : ~Contains(md_disk, n)

(***************************************************************************)
(* The path resolver over many command lines.                              *)
(***************************************************************************)
Nm_k_x == <<"k", ".", "x">>
Nm_a_b_x == <<"a", ".", "b", ".", "x">>
Nm_o_md == <<"o", ".", "m", "d">>
Nm_up == <<".", ".">>

\* /d/k.x, k.x, d/a.b.x, /k
PptxPaths ==
  { DeckPath,
    MkPath(FALSE, << Nm_k_x >>),
    MkPath(FALSE, << <<"d">>, Nm_a_b_x >>),
    MkPath(TRUE, << <<"k">> >>) }

\* o.md, s/o.md, ../o.md, /t/o.md
OutputOverrides ==
  { MkPath(FALSE, << Nm_o_md >>),
    MkPath(FALSE, << <<"s">>, Nm_o_md >>),
    MkPath(FALSE, << Nm_up, Nm_o_md >>),
    MkPath(TRUE, << <<"t">>, Nm_o_md >>) }

\* m, s, s/m, /t/m, /u/m, /
ImageOverrides ==
  { MkPath(FALSE, << <<"m">> >>),
    MkPath(FALSE, << <<"s">> >>),
    MkPath(FALSE, << <<"s">>, <<"m">> >>),
    MkPath(TRUE, << <<"t">>, <<"m">> >>),
    MkPath(TRUE, << <<"u">>, <<"m">> >>),
    MkPath(TRUE, << >>) }

Optional(S) == { {} } \cup { {p} : p \in S }

PathArgs ==
  { Args(p, o, i, v) :
      p \in PptxPaths, o \in Optional(OutputOverrides),
      i \in Optional(ImageOverrides), v \in BOOLEAN }

PathEnvs ==
  { [which |-> Executables, wand |-> TRUE], [which |-> {}, wand |-> FALSE] }

PathEngines ==
  { [md |-> LinkedMd(S), dir |-> DirOf(S)] :
      S \in { { FileE(AJpg), FileE(CPng) }, { FileE(BWmf), DirE(SJpg) } } }

InitPaths == InitWith(PathArgs, PathEnvs, PathEngines)

SpecPaths == InitPaths /\ [][Next]_vars

\* an override as the claim resolves it: a relative one onto the parent of
\* the input file, an absolute one as it is
Resolved(p) ==
  LET base == Parent(argv.pptx_path)
  IN  IF p.abs THEN p ELSE MkPath(base.abs, base.parts \o p.parts)

\* C1: _resolve_output_paths returns, with the overrides resolved against the
\* input's parent: neither given -> (parent/stem/index.md, parent/stem/img);
\* image dir only -> (image_dir.parent/index.md, image_dir); output only ->
\* (output, output.parent/img); both -> (output, image_dir); always two paths.
C1_ResolveOutputPaths ==
  pc # "start" /\ ~argv.version =>
    LET base == Parent(argv.pptx_path)
        stem == Stem(Name(argv.pptx_path))
    IN  /\ Cardinality(output_path) = 1 /\ Cardinality(image_dir) = 1
        /\ (argv.output = {} /\ argv.image = {}) =>
             /\ The(output_path) = MkPath(base.abs, base.parts \o << stem, IndexMd >>)
             /\ The(image_dir) = MkPath(base.abs, base.parts \o << stem, Img >>)
        /\ (argv.output = {} /\ argv.image # {}) =>
             LET i == Resolved(The(argv.image))
             IN  /\ The(image_dir) = i
                 /\ The(output_path) = MkPath(i.abs, Parent(i).parts \o << IndexMd >>)
        /\ (argv.output # {} /\ argv.image = {}) =>
             LET o == Resolved(The(argv.output))
             IN  /\ The(output_path) = o
                 /\ The(image_dir) = MkPath(o.abs, Parent(o).parts \o << Img >>)
        /\ (argv.output # {} /\ argv.image # {}) =>
             /\ The(output_path) = Resolved(The(argv.output))
             /\ The(image_dir) = Resolved(The(argv.image))

\* both overrides given, the output relative and the image directory absolute
C1_BothOverridesResolved ==
  /\ pc = "convert"
  /\ argv.output # {} /\ argv.image # {}
  /\ ~The(argv.output).abs /\ The(argv.image).abs
  /\ The(output_path).abs
  /\ The(image_dir) = The(argv.image)

\* C9: whatever _resolve_output_paths returns, image_dir lies under the parent
\* of output_path, so relative_to never raises ValueError in the link rewriter
\* or the gallery fallback.
C9_ImageDirUnderOutputParent ==
  /\ output_path # {} => IsRelativeTo(The(image_dir), Parent(The(output_path)))
  /\ error # "ValueError"

(***************************************************************************)
(* The link rewriter over file names and Markdown texts chosen to overlap. *)
(***************************************************************************)
GJpg == <<"g">> \o DotJpg
PQJpg == <<"p", " ", "q">> \o DotJpg
XYPng == <<"x", " ", "y">> \o DotPng
C1Png == <<"c", "(", "1", ")">> \o DotPng
PPng == <<"P", ".", "P", "N", "G">>
AI == <<"a", " ", "i">>
AJpgWmf == AJpg \o DotWmf

TextPool ==
  { FileE(AJpg), FileE(BWmf), FileE(GJpg), FileE(PQJpg), FileE(XYPng),
    FileE(C1Png), FileE(PPng), FileE(AI), FileE(AJpgWmf) }

\* ![](img/g.jpg.jpg)
DoubleSuffixMd == LinkLine(GJpg \o DotJpg)
\* ![](img/a img/a i)
OverlapMd == LinkLine(<<"a", " ">> \o ImgSlash \o AI)
\* <img>
TagMd == ImgTag \o << ">", "\n" >>

TextEngines ==
  UNION { { [md |-> m, dir |-> DirOf(S)] :
              m \in { LinkedMd(S), TitleMd, DoubleSuffixMd, OverlapMd, TagMd } } :
          S \in Bounded(TextPool) }

\* the default layout, --version, and -i m
TextArgs ==
  PlainArgs \cup { Args(DeckPath, {}, { MkPath(FALSE, << <<"m">> >>) }, FALSE) }

InitText == InitWith(TextArgs, PathEnvs, TextEngines)

SpecText == InitText /\ [][Next]_vars

Alphabet == { AsciiOrder[i] : i \in DOMAIN AsciiOrder }

Chars(texts) == UNION { { t[i] : i \in DOMAIN t } : t \in texts }

\* a text cut into its delimiter characters and the maximal runs between
RECURSIVE Pieces(_, _)
Pieces(text, delims) ==
  IF text = << >> THEN << >>
  ELSE IF text[1] \in delims
  THEN << << text[1] >> >> \o Pieces(Tail(text), delims)
  ELSE LET k == CHOOSE k \in 1..Len(text) :
                  /\ \A i \in 1..k : text[i] \notin delims
                  /\ k = Len(text) \/ text[k + 1] \in delims
       IN  << UpTo(text, k) >> \o Pieces(From(text, k), delims)

\* no name lies inside another
NoNesting(names) == \A a, b \in names : a # b => ~Contains(b, a)

\* every occurrence of a name in the text is a whole run between delimiters
WholeWords(text, names, delims) ==
  LET ps == Pieces(text, delims)
  IN  \A i \in DOMAIN ps :
        ps[i] \in names \/ \A n \in names : ~Contains(ps[i], n)

OldNames == { p[1] : p \in RenamePairs }
NewNames == { p[2] : p \in RenamePairs }
NewOf(old) == (CHOOSE p \in RenamePairs : p[1] = old)[2]

\* the characters that occur in no file name of the rename map
MapDelims == Alphabet \ Chars(OldNames \cup NewNames)

\* C5 as stated: after the rename substitution no old filename of the map
\* occurs anywhere in the content.
C5_NoOldNameLeft ==
  pc = "links" => \A old \in OldNames : ~Contains(content, old)

\* C5, amended: when no old filename lies inside another and every occurrence
\* of an old filename in the Markdown text is a whole run between characters
\* that occur in no filename of the map, the substitution turns exactly those
\* runs into the new filenames and leaves no old filename in the content.
C5_WholeNamesRenamed ==
  (pc = "links" /\ NoNesting(OldNames) /\ WholeWords(prev, OldNames, MapDelims)) =>
    /\ LET ps == Pieces(prev, MapDelims)
       IN  content =
             Concat([i \in DOMAIN ps |->
                       IF ps[i] \in OldNames THEN NewOf(ps[i]) ELSE ps[i]])
    /\ \A old \in OldNames : ~Contains(content, old)

\* two renamed files, both linked in the text, both links rewritten
C5_TwoLinksRenamed ==
  /\ pc = "links"
  /\ Cardinality(OldNames) = 2
  /\ NoNesting(OldNames) /\ WholeWords(prev, OldNames, MapDelims)
  /\ \A old \in OldNames : Contains(prev, old) /\ Contains(content, NewOf(old))

\* the link rewriter's relative directory, where relative_to returns
RelDir == RelativeTo(The(image_dir), OutputDir)

\* the relative paths _normalize_image_links rewrites
RawLinks ==
  { r \in { RawLink(RelDir, n) : n \in RegularFiles(fs) } : _quote_path(r) # r }

LinkDelims == Alphabet \ Chars(RawLinks \cup { _quote_path(r) : r \in RawLinks })

HasChar(text, S) == \E i \in DOMAIN text : text[i] \in S

\* C6 as stated: after _normalize_image_links, for every file whose relative
\* path contains a space or a parenthesis the encoded form differs from the
\* raw path and the raw path is no substring of the content.
C6_SpaceOrParenEncoded ==
  pc = "gallery" =>
    \A n \in RegularFiles(fs) :
      LET raw == RawLink(RelDir, n)
      IN  HasChar(raw, { " ", "(", ")" }) =>
            (_quote_path(raw) # raw /\ ~Contains(content, raw))

\* C6, amended: a relative path is left as it is exactly when all its
\* characters are letters, digits or one of /()[]-._~ (parentheses are safe);
\* a path with a space is encoded to a form without spaces, and when no
\* rewritten path lies inside another and every occurrence of one in the text
\* is a whole run between characters that occur in none of them, the raw path
\* is no substring of the content after _normalize_image_links.
C6_UnsafeEncoded ==
  pc = "gallery" =>
    \A n \in RegularFiles(fs) :
      LET raw == RawLink(RelDir, n)
          encoded == _quote_path(raw)
      IN  /\ (encoded = raw) <=>
               (\A i \in DOMAIN raw : raw[i] \in Letters \cup Digits \cup
                  { "/", "(", ")", "[", "]", "-", ".", "_", "~" })
          /\ HasChar(raw, { " " }) =>
               /\ encoded # raw
               /\ ~HasChar(encoded, { " " })
               /\ (NoNesting(RawLinks) /\ WholeWords(prev, RawLinks, LinkDelims)) =>
                    (~Contains(content, raw) /\ (Contains(prev, raw) => Contains(content, encoded)))

\* a linked file with a space in its name, its link rewritten
C6_SpaceLinkRewritten ==
  /\ pc = "gallery"
  /\ NoNesting(RawLinks) /\ WholeWords(prev, RawLinks, LinkDelims)
  /\ \E n \in RegularFiles(fs) :
       /\ HasChar(n, { " " })
       /\ Contains(prev, RawLink(RelDir, n))
       /\ Contains(content, _quote_path(RawLink(RelDir, n)))

\* the PNG files of the image directory at the end of the run
FinalPngs == { n \in RegularFiles(fs) : Lower(Suffix(n)) = DotPng }

\* the gallery for the names in this order: "\n\n# Images\n", then for each
\* name "\n![](<encoded relative path>)\n"
GalleryFor(order) ==
  << "\n", "\n" >> \o ImagesHeading \o << "\n" >>
    \o Concat([i \in DOMAIN order |->
                 << "\n", "!", "[", "]", "(" >>
                   \o _quote_path(RawLink(RelDir, order[i])) \o << ")", "\n" >>])

\* C7: if the content holds neither "img/" nor "<img" and the directory holds
\* n >= 1 PNG files, _append_images_if_missing returns the content followed by
\* the Images heading and exactly n image lines, one per PNG file in ascending
\* name order, each path relative to the Markdown directory and
\* percent-encoded; otherwise it returns the content unchanged.
C7_GalleryFallback ==
  Succeeded =>
    IF ~Contains(prev, ImgSlash) /\ ~Contains(prev, ImgTag) /\ FinalPngs # {}
    THEN \E order \in Orders(FinalPngs) :
           /\ \A i, j \in DOMAIN order : i < j => LessText(order[i], order[j])
           /\ content = prev \o GalleryFor(order)
    ELSE content = prev

\* a gallery of two PNG files was appended
C7_GalleryOfTwo ==
  /\ Succeeded
  /\ Cardinality(FinalPngs) = 2
  /\ ~Contains(prev, ImgSlash) /\ ~Contains(prev, ImgTag)
  /\ content # prev
  /\ md_disk = content

=============================================================================
